---- MODULE Spec2Model ----
(***************************************************************************)
(* The frame loop of the vortex scene (src/unnamed/part_000): the body     *)
(* (sphere) integrator, the particle field, the audio envelope and the     *)
(* requestAnimationFrame scheduling that drives them.                      *)
(*                                                                         *)
(* Numbers.  The program computes in IEEE doubles.  The model computes in  *)
(* fixed point: lengths and velocities in 1/U of a world unit, gains in    *)
(* 1/G, factors in 1/1000, every quotient rounded to the nearest integer.  *)
(* The three IEEE values that are not numbers of the fixed-point range     *)
(* (NaN, +Infinity, -Infinity) are kept as three values of their own, and  *)
(* a vector whose components are NaN is the empty tuple NaNVec.            *)
(***************************************************************************)
EXTENDS Integers, Sequences, FiniteSets, TLC

\* ------------------------------------------------------------ resolution
U == 10^3                       \* fixed-point units per world unit
G == 10^6                       \* fixed-point units per unit of gain
Huge == 2 * 10^9                \* beyond every finite value of the model
PosInf == Huge                  \* IEEE +Infinity
NegInf == -Huge                 \* IEEE -Infinity
NaN == Huge + 1                 \* IEEE NaN
NaNVec == <<>>                  \* a Vector3 whose components are NaN

IsFinite(a) == a # NaN /\ a # PosInf /\ a # NegInf
IsVec(v) == Len(v) = 3

Abs(a) == IF a < 0 THEN -a ELSE a
Min(a, b) == IF a < b THEN a ELSE b
Max(a, b) == IF a > b THEN a ELSE b

\* a / b rounded to the nearest integer (b > 0), as a double rounds
RDiv(a, b) == IF a >= 0 THEN (a + b \div 2) \div b
              ELSE -(((-a) + b \div 2) \div b)

\* a / b cut toward zero (b > 0)
TDiv(a, b) == IF a >= 0 THEN a \div b ELSE -((-a) \div b)

\* a + b in doubles, for a sum that may hold an infinity
FAdd(a, b) == IF a = NaN \/ b = NaN THEN NaN
              ELSE IF ~IsFinite(a) THEN a
              ELSE IF ~IsFinite(b) THEN b
              ELSE a + b

\* Math.min / Math.max: NaN if either argument is NaN
MathMin(a, b) == IF a = NaN \/ b = NaN THEN NaN ELSE Min(a, b)
MathMax(a, b) == IF a = NaN \/ b = NaN THEN NaN ELSE Max(a, b)

RECURSIVE SqrtIter(_, _)
SqrtIter(n, g) == LET h == (g + n \div g) \div 2
                  IN IF h >= g THEN g ELSE SqrtIter(n, h)
\* Math.sqrt on the fixed-point grid
ISqrt(n) == IF n = 0 THEN 0 ELSE SqrtIter(n, 46341)

\* ------------------------------------------------------ THREE.Vector3
Vec(x, y, z) == <<x, y, z>>
Zero == Vec(0, 0, 0)
VAdd(a, b) == IF IsVec(a) /\ IsVec(b) THEN Vec(a[1] + b[1], a[2] + b[2], a[3] + b[3])
              ELSE NaNVec
VSub(a, b) == IF IsVec(a) /\ IsVec(b) THEN Vec(a[1] - b[1], a[2] - b[2], a[3] - b[3])
              ELSE NaNVec
\* the divisor that brings the largest component under 26000, so that the
\* sum of three squares stays in range
Shrink(v) == LET m == Max(Abs(v[1]), Max(Abs(v[2]), Abs(v[3])))
             IN IF m < 26000 THEN 1 ELSE m \div 26000 + 1
\* Vector3.length()
Length(v) == IF ~IsVec(v) THEN NaN
             ELSE LET s == Shrink(v)
                      x == RDiv(v[1], s)
                      y == RDiv(v[2], s)
                      z == RDiv(v[3], s)
                  IN s * ISqrt(x * x + y * y + z * z)
\* Vector3.multiplyScalar(f / den), f finite or not
Scale(v, f, den) ==
    IF ~IsVec(v) \/ f = NaN THEN NaNVec
    ELSE IF ~IsFinite(f)
         \* an infinite factor meets only the zero vector here (dist = 0,
         \* where normalize() leaves (0,0,0)): 0 * Infinity is NaN
         THEN NaNVec
         ELSE Vec(RDiv(v[1] * f, den), RDiv(v[2] * f, den), RDiv(v[3] * f, den))
\* Vector3.multiplyScalar(f / 1000) for a damping factor f < 1000: cut toward
\* zero, so that damping never leaves a component as large as it was
Damp(v, f) ==
    IF ~IsVec(v) THEN NaNVec
    ELSE Vec(TDiv(v[1] * f, 1000), TDiv(v[2] * f, 1000), TDiv(v[3] * f, 1000))
\* Vector3.normalize(): divideScalar(length() || 1); the unit vector has
\* length U
Normalize(v) ==
    IF ~IsVec(v) THEN NaNVec
    ELSE LET s == Shrink(v)
             l == Length(v) \div s
         IN IF l = 0 THEN v
            ELSE Vec(RDiv(RDiv(v[1], s) * U, l), RDiv(RDiv(v[2], s) * U, l),
                     RDiv(RDiv(v[3], s) * U, l))
\* ------------------------------------------------------ program constants
\* lengths and velocities in 1/U, factors in 1/1000, gains in 1/G
maxSpeed == 1350
friction == 992
playerAccel == 130
engulfRadius == 1000
smoothing == 40
fadeDuration == 1900
baseGain == 700000
initialGain == 1000000
particleDecay == 970
recycleRadius == 3500
boostRadius == 23000
RANGE == 1500
vortexPos == Vec(0, 0, -18 * U)
sphereStart == Vec(0, 0, 1000 * U)

\* -------------------------------------------------- the body's gravity
\* K = 5 + 1800 * Math.min(1, (dist - 10) / 400), times 1000
KTimes1000(dist) ==
    IF dist = NaN THEN NaN
    ELSE IF dist - 10 * U >= 400 * U THEN 5000 + 1800000
    ELSE 5000 + RDiv(4500 * (dist - 10 * U), U)

\* gravStrength = K / (dist * dist), in 1/U per frame.  No minimum is put
\* on dist: at dist = 0 the quotient is K / 0 with K = -40, -Infinity.
GravStrength(dist) ==
    IF dist = NaN THEN NaN
    ELSE IF dist = 0 THEN NegInf
    ELSE RDiv(RDiv(KTimes1000(dist) * 1000, dist) * ((U * U) \div 1000), dist)

\* noiseAmplitude = 0.005 * Math.max(0.1, 1 - dist / 100), in 1/10^6
NoiseAmplitude(dist) ==
    IF dist = NaN THEN NaN
    ELSE IF dist >= 100 * U THEN 5 * 100
    ELSE 5 * Max(100, 1000 - RDiv(dist * 10, U))

\* (sin(angle + 0.6), sin(angle - 0.3), cos(angle + 0.3)) in 1/1000 at the
\* angles 0, pi/2, pi, 3pi/2 that `time` selects
NoisePhases == 4
NoiseDir(t) == CASE t = 0 -> Vec(565, -296, 955)
                 [] t = 1 -> Vec(825, 955, -296)
                 [] t = 2 -> Vec(-565, 296, -955)
                 [] OTHER -> Vec(-825, -955, 296)
\* the noise vector added to the velocity
Noise(t, dist) ==
    LET a == NoiseAmplitude(dist)
        d == NoiseDir(t)
        per == 10^9 \div U
    IN IF a = NaN THEN NaNVec
       ELSE Vec(RDiv(d[1] * a, per), RDiv(d[2] * a * 55, per * 100), RDiv(d[3] * a, per))

\* moveVec: (moveTarget.x, 0, moveTarget.z) normalized, times playerAccel
MoveVec(m) == Scale(Normalize(Vec(m.x * U, 0, m.z * U)), playerAccel, U)

\* the velocity left as it is, whatever its length
ClampSpeedOff(v) == v
\* if (sphereVelocity.length() > maxSpeed) sphereVelocity.setLength(maxSpeed)
ClampSpeed(v) ==
    LET l == Length(v)
    IN IF l # NaN /\ l > maxSpeed THEN Scale(Normalize(v), maxSpeed, U) ELSE v
\* ---------------------------------------------------- the audio envelope
\* intensity = 2 - Math.min(1, dist / 160), in 1/1000
Intensity(dist) ==
    IF dist = NaN THEN NaN
    ELSE IF dist >= 160 * U THEN 1000
    ELSE 2000 - Min(1000, RDiv(dist * 1000, 160 * U))
\* Math.max(0, Math.min(1.2, intensity))
ClampIntensity(i) == MathMax(0, MathMin(1200, i))
\* targetGain = 0.13 + 0.95 * intensity
TargetGain(i) == IF i = NaN THEN NaN ELSE 130000 + 950 * i
\* filterNode.frequency.value = 800 + 8000 * (1 - intensity), in Hz
FilterFrequency(i) == IF i = NaN THEN NaN ELSE 800 + 8 * (1000 - i)
\* the gain left where it is
SmoothStalled(cur, tgt) == cur
\* currentGain += (targetGain - currentGain) * 0.04
Smooth(cur, tgt) ==
    IF cur = NaN \/ tgt = NaN THEN NaN ELSE cur + RDiv((tgt - cur) * smoothing, 1000)
\* t = Math.min(1, elapsed / duration), in 1/1000
FadeT(elapsed) == Min(1000, RDiv(elapsed * 1000, fadeDuration))
\* start * (t - 1), the factor with its sign turned
FadeGainInverted(start, t) == IF start = NaN THEN NaN ELSE RDiv(start * (t - 1000), 1000)
\* currentGain = start * (1 - t)
FadeGain(start, t) == IF start = NaN THEN NaN ELSE RDiv(start * (1000 - t), 1000)
\* the guard without its test of `fading`
FadeStartsReentrant(started, isFading) == started
\* fadeOutAudio goes past its guard: if (!audioStarted || fading) return
FadeStarts(started, isFading) == ~(~started \/ isFading)

\* ------------------------------------------------------- the collision
\* hasCollided following dist < 1 frame by frame
NextCollidedUnlatched(collided, dist) == dist # NaN /\ dist < engulfRadius
\* the branch if (!hasCollided && dist < 1) is taken
Collides(collided, dist) == ~collided /\ dist # NaN /\ dist < engulfRadius
\* hasCollided after the frame
NextCollided(collided, dist) == collided \/ Collides(collided, dist)

\* ---------------------------------------------------- the particle field
\* 0.18 / (d * d), in 1/10^6; above 18 (d under 0.1) it is kept at 18, far
\* over the cap of 0.07 that Attract puts on it
InverseSquare(d) ==
    IF d = NaN THEN NaN
    ELSE IF d = 0 THEN PosInf
    ELSE IF d < 100 THEN 18000000
    ELSE RDiv(RDiv(180000 * U, d) * U, d)
\* attract = Math.max(0.015, Math.min(0.07, 0.011 + 0.18 / (d * d)));
\* if (d < 23) attract *= 1.6; in 1/10^6
Attract(d) ==
    LET a == MathMax(15000, MathMin(70000, FAdd(11000, InverseSquare(d))))
    IN IF a = NaN THEN NaN
       ELSE IF d < boostRadius THEN RDiv(a * 16, 10) ELSE a
\* the spawn point without the factor 0.5 on y
SpawnPointWide(r) == Vec(RDiv((r[1] - 500) * RANGE * U, 1000),
                         RDiv((r[2] - 500) * RANGE * U, 1000),
                         RDiv((r[3] - 500) * RANGE * U, 1000) - 10 * U)
\* ((Math.random() - 0.5) * RANGE, (Math.random() - 0.5) * RANGE * 0.5,
\*  (Math.random() - 0.5) * RANGE - 10) for three draws r in 1/1000
SpawnPoint(r) == Vec(RDiv((r[1] - 500) * RANGE * U, 1000),
                     RDiv((r[2] - 500) * RANGE * U, 2000),
                     RDiv((r[3] - 500) * RANGE * U, 1000) - 10 * U)
InSpawnVolume(p) == /\ IsVec(p)
                    /\ Abs(p[1]) * 2 <= RANGE * U
                    /\ Abs(p[2]) * 4 <= RANGE * U
                    /\ Abs(p[3] + 10 * U) * 2 <= RANGE * U
\* the pass without its two guards: attract is 0.011 + 0.18 / (d * d) as
\* it comes, and a particle next to the vortex is moved like any other
ParticleStepUnguarded(p, v, r) ==
    LET toVortex == VSub(vortexPos, p)
        d == Length(toVortex)
        pull == Scale(Normalize(toVortex), FAdd(11000, InverseSquare(d)), 10^6)
        v1 == Damp(VAdd(v, pull), particleDecay)
    IN [p |-> VAdd(p, v1), v |-> v1]
\* one pass of the particle loop over particle (p, v): the pair after it
ParticleStep(p, v, r) ==
    LET toVortex == VSub(vortexPos, p)
        d == Length(toVortex)
        pull == Scale(Normalize(toVortex), Attract(d), 10^6)
        v1 == Damp(VAdd(v, pull), particleDecay)
        p1 == VAdd(p, v1)
    IN IF d # NaN /\ d < recycleRadius THEN [p |-> SpawnPoint(r), v |-> Zero]
       ELSE [p |-> p1, v |-> v1]
\* ------------------------------------------------------------ bounds
MaxFrames == 3                  \* display refreshes of a run of Spec
FieldFrames == 7                \* display refreshes of a run of SpecField
FarFrames == 170                \* display refreshes of a run of SpecFar
MaxKeys == 1                    \* key events of a run
MaxCalls == 2                   \* outside calls of fadeOutAudio in SpecEnvelope
PARTICLE_COUNT == 2             \* particles of the field (1500 in the scene)
ShortFrame == 600               \* ms between two display refreshes
LongFrame == 1300               \* ms between two display refreshes, a slow one

FrameTimes == {ShortFrame, LongFrame}
KeyCodes == {"ArrowLeft", "ArrowRight", "ArrowUp", "ArrowDown", "Space"}
\* values of Math.random(), in 1/1000
Randoms == {0, 999}
Draws == {<<a, b, c>> : a \in Randoms, b \in Randoms, c \in Randoms}
\* where the body is put in the scene: the scene's own point, and points near
\* the vortex (inside the engulfing radius, in the field around it)
LaunchPoints == {sphereStart,
                 VAdd(vortexPos, Vec(0, 0, U \div 2)),
                 VAdd(vortexPos, Vec(0, 0, 5 * U)),
                 VAdd(vortexPos, Vec(3 * U, 0, 30 * U))}
\* where a particle may be at the start: points of the spawn volume
ParticleStarts == {vortexPos,
                   VAdd(vortexPos, Vec(2 * U, 0, 0)),
                   VAdd(vortexPos, Vec(0, 0, 4 * U)),
                   VAdd(vortexPos, Vec(30 * U, 0, 0)),
                   SpawnPoint(<<0, 999, 0>>)}
FarParticle == SpawnPoint(<<999, 999, 999>>)

\* ------------------------------------------------------------- state
VARIABLES
    sphere,            \* sphere.position
    sphereVelocity,
    moveTarget,        \* [x, z], each -1, 0 or 1
    hasCollided,
    audioStarted,
    targetGain,
    currentGain,
    fading,
    filterFrequency,   \* filterNode.frequency.value; 0 before startAudio
    startListener,     \* the once-listener of keydown that calls startAudio
    positions,         \* the particles' positions
    velocities,        \* the particles' velocities
    measured,          \* d of each particle as the last frame measured it
    time,              \* the refresh's time stamp, as the phase of the noise
    running,           \* the callbacks of this refresh still to run
    requested,         \* the callbacks requested for the next refresh
    unclamped,         \* sphereVelocity of the last frame before the clamp
    clamped,           \* sphereVelocity of the last frame after the clamp
    engulfed,          \* how often the collision branch has run
    fadeCalls,         \* how often fadeOutAudio has been called
    frames,            \* display refreshes so far
    horizon,           \* display refreshes of the run (0: no end)
    keysLeft           \* key events left to the run

body == <<sphere, sphereVelocity, hasCollided, unclamped, clamped, engulfed>>
audio == <<audioStarted, targetGain, currentGain, fading, filterFrequency>>
field == <<positions, velocities, measured>>
raf == <<running, requested, time, frames>>
vars == <<body, audio, field, raf, moveTarget, startListener, fadeCalls, horizon, keysLeft>>

\* a callback handed to requestAnimationFrame.  A step closure holds the
\* startGain of its fade and the time since its start; `call` is the number
\* of the fadeOutAudio call that created it.
AnimateCallback == [fn |-> "animate", start |-> 0, elapsed |-> 0, call |-> 0]
StepCallback(start, n) == [fn |-> "step", start |-> start, elapsed |-> 0, call |-> n]
IsStep(c) == c.fn = "step"
\* the step closures waiting for a refresh or for their turn in one
FadeSteps == SelectSeq(running \o requested, IsStep)
\* fade step chains alive
StepsInFlight == Len(FadeSteps)

\* the state after the script has run, with the body at `launch`, the
\* particles at `starts`, and a run of `h` refreshes and `k` key events
Setup(launch, starts, h, k) ==
    /\ sphere = launch
    /\ sphereVelocity = Zero
    /\ moveTarget = [x |-> 0, z |-> 0]
    /\ hasCollided = FALSE
    /\ audioStarted = FALSE
    /\ targetGain = initialGain
    /\ currentGain = initialGain
    /\ fading = FALSE
    /\ filterFrequency = 0
    /\ startListener = TRUE
    /\ positions = starts
    /\ velocities = [i \in DOMAIN starts |-> Zero]
    /\ measured = <<>>
    /\ time = 0
    /\ running = <<>>
    /\ requested = <<AnimateCallback>>
    /\ unclamped = Zero
    /\ clamped = Zero
    /\ engulfed = 0
    /\ fadeCalls = 0
    /\ frames = 0
    /\ horizon = h
    /\ keysLeft = k

Init == \E launch \in LaunchPoints :
            Setup(launch, [i \in 1..PARTICLE_COUNT |-> FarParticle], MaxFrames, MaxKeys)
\* ----------------------------------------------------------- actions
\* The display refreshes: the callbacks requested since the last refresh
\* become the ones to run, in the order of their requests, `dt` ms later.
Tick(dt) ==
    /\ running = <<>>
    /\ requested # <<>>
    /\ horizon = 0 \/ frames < horizon
    /\ running' = [k \in DOMAIN requested |->
                      IF requested[k].fn = "step"
                      THEN [requested[k] EXCEPT !.elapsed = @ + dt]
                      ELSE requested[k]]
    /\ requested' = <<>>
    /\ time' = (time + 1) % NoisePhases
    /\ frames' = IF horizon = 0 THEN 0 ELSE frames + 1
    /\ UNCHANGED <<body, audio, field, moveTarget, startListener, fadeCalls, horizon,
                   keysLeft>>

\* keydown: startAudio through the once-listener of window, then the
\* listener of document that sets moveTarget
KeyDown(code) ==
    /\ running = <<>>
    /\ keysLeft > 0
    /\ keysLeft' = keysLeft - 1
    /\ startListener' = FALSE
    /\ IF startListener /\ ~audioStarted
       THEN /\ audioStarted' = TRUE
            /\ currentGain' = baseGain
            /\ targetGain' = baseGain
            /\ filterFrequency' = 10000
       ELSE UNCHANGED <<audioStarted, currentGain, targetGain, filterFrequency>>
    /\ moveTarget' = CASE code = "ArrowLeft" -> [moveTarget EXCEPT !.x = -1]
                       [] code = "ArrowRight" -> [moveTarget EXCEPT !.x = 1]
                       [] code = "ArrowUp" -> [moveTarget EXCEPT !.z = -1]
                       [] code = "ArrowDown" -> [moveTarget EXCEPT !.z = 1]
                       [] OTHER -> moveTarget
    /\ UNCHANGED <<body, fading, field, raf, fadeCalls, horizon>>

\* keyup: the listener of document
KeyUp(code) ==
    /\ running = <<>>
    /\ keysLeft > 0
    /\ keysLeft' = keysLeft - 1
    /\ moveTarget' = CASE code \in {"ArrowLeft", "ArrowRight"} -> [moveTarget EXCEPT !.x = 0]
                       [] code \in {"ArrowUp", "ArrowDown"} -> [moveTarget EXCEPT !.z = 0]
                       [] OTHER -> moveTarget
    /\ UNCHANGED <<body, audio, field, raf, startListener, fadeCalls, horizon>>

\* the draws of Math.random() particle i makes in a frame: three when it is
\* recycled, none otherwise
DrawsOf(i) ==
    LET d == Length(VSub(vortexPos, positions[i]))
    IN IF d # NaN /\ d < recycleRadius THEN Draws ELSE {<<0, 0, 0>>}
\* the draws of a frame for the particles 1..n, particle by particle
RECURSIVE FrameDraws(_)
FrameDraws(n) == IF n = 0 THEN {<<>>}
                 ELSE {Append(r, d) : r \in FrameDraws(n - 1), d \in DrawsOf(n)}

\* animate(time): one frame of the body, the audio envelope and the field
Animate ==
    /\ running # <<>>
    /\ Head(running).fn = "animate"
    /\ LET toVortex == VSub(vortexPos, sphere)
           dist == Length(toVortex)
           dirToVortex == Normalize(toVortex)
           intensity == ClampIntensity(Intensity(dist))
           tgt == IF audioStarted THEN TargetGain(intensity) ELSE targetGain
           cur == IF audioStarted /\ ~fading THEN Smooth(currentGain, tgt) ELSE currentGain
           v1 == VAdd(VAdd(sphereVelocity, Scale(dirToVortex, GravStrength(dist), U)),
                      Noise(time, dist))
           v2 == IF moveTarget.x # 0 \/ moveTarget.z # 0
                 THEN VAdd(v1, MoveVec(moveTarget)) ELSE v1
           v3 == ClampSpeed(v2)
           v4 == Damp(v3, friction)
           hit == Collides(hasCollided, dist)
           starts == hit /\ FadeStarts(audioStarted, fading)
       IN /\ targetGain' = tgt
          /\ filterFrequency' = IF audioStarted THEN FilterFrequency(intensity)
                                ELSE filterFrequency
          /\ currentGain' = cur
          /\ unclamped' = v2
          /\ clamped' = v3
          /\ sphereVelocity' = v4
          /\ sphere' = VAdd(sphere, v4)
          /\ hasCollided' = NextCollided(hasCollided, dist)
          /\ engulfed' = IF hit THEN engulfed + 1 ELSE engulfed
          /\ fadeCalls' = IF hit THEN fadeCalls + 1 ELSE fadeCalls
          /\ fading' = (fading \/ starts)
          /\ requested' = requested \o (IF starts THEN <<StepCallback(cur, fadeCalls + 1)>> ELSE <<>>)
                                    \o <<AnimateCallback>>
    /\ \E r \in FrameDraws(Len(positions)) :
          /\ positions' = [i \in DOMAIN positions |->
                              ParticleStep(positions[i], velocities[i], r[i]).p]
          /\ velocities' = [i \in DOMAIN positions |->
                               ParticleStep(positions[i], velocities[i], r[i]).v]
    /\ measured' = [i \in DOMAIN positions |-> Length(VSub(vortexPos, positions[i]))]
    /\ running' = Tail(running)
    /\ UNCHANGED <<audioStarted, moveTarget, startListener, time, frames, horizon, keysLeft>>

\* step(now): one step of the fade that fadeOutAudio started
Step ==
    /\ running # <<>>
    /\ Head(running).fn = "step"
    /\ LET me == Head(running)
           t == FadeT(me.elapsed)
       IN IF t < 1000
          THEN /\ currentGain' = FadeGain(me.start, t)
               /\ requested' = Append(requested, me)
               /\ UNCHANGED <<audioStarted, fading>>
          ELSE /\ currentGain' = 0
               /\ audioStarted' = FALSE
               /\ fading' = FALSE
               /\ UNCHANGED requested
    /\ running' = Tail(running)
    /\ UNCHANGED <<body, targetGain, filterFrequency, field, time, frames, moveTarget,
                   startListener, fadeCalls, horizon, keysLeft>>

\* fadeOutAudio() called between two refreshes by a caller other than animate
CallFadeOut ==
    /\ running = <<>>
    /\ fadeCalls < MaxCalls
    /\ fadeCalls' = fadeCalls + 1
    /\ fading' = (fading \/ FadeStarts(audioStarted, fading))
    /\ requested' = requested \o (IF FadeStarts(audioStarted, fading)
                                  THEN <<StepCallback(currentGain, fadeCalls + 1)>>
                                  ELSE <<>>)
    /\ UNCHANGED <<body, audioStarted, targetGain, currentGain, filterFrequency, field,
                   running, time, frames, moveTarget, startListener, horizon, keysLeft>>

Refresh == \E dt \in FrameTimes : Tick(dt)
Keys == \E code \in KeyCodes : KeyDown(code) \/ KeyUp(code)

Next == Refresh \/ Animate \/ Step \/ Keys

Spec == Init /\ [][Next]_vars
\* ------------------------------------------------- other specifications
\* fadeOutAudio is a global function: the frame loop with callers of it
\* other than the collision branch
SpecEnvelope == Init /\ [][Next \/ CallFadeOut]_vars

\* The body put on the vortex itself as well
InitVortex == \E launch \in LaunchPoints \cup {vortexPos} :
                  Setup(launch, [i \in 1..PARTICLE_COUNT |-> FarParticle], MaxFrames, MaxKeys)
SpecVortex == InitVortex /\ [][Next]_vars

\* The particle field: every particle somewhere in ParticleStarts, the body
\* where the scene puts it, no key pressed
InitField == \E starts \in [1..PARTICLE_COUNT -> ParticleStarts] :
                 Setup(sphereStart, starts, FieldFrames, 0)
NextField == Tick(ShortFrame) \/ Animate
SpecField == InitField /\ [][NextField]_vars

\* The scene as the script builds it, over FarFrames refreshes in which the
\* body stays further than 160 from the vortex; a key that moves nothing
\* starts the audio at any moment
InitFar == Setup(sphereStart, <<>>, FarFrames, 1)
NextFar == Tick(ShortFrame) \/ Animate \/ KeyDown("Space")
SpecFar == InitFar /\ [][NextFar]_vars

\* The scene as the script builds it, left alone: no key is pressed, and the
\* particle field is left out (the body and the field do not read each other).
InitLaunch == Setup(sphereStart, <<>>, 0, 0)
NextLaunch == Tick(ShortFrame) \/ Animate
\* animate requests itself at the end of every frame and the display keeps
\* refreshing: a refresh that is due happens, and the callbacks of a refresh
\* are all run
SpecLaunch == /\ InitLaunch /\ [][NextLaunch]_vars
              /\ WF_vars(Tick(ShortFrame)) /\ []<>(running = <<>>)

\* The scene as the script builds it, with the audio started by a key that
\* moves nothing, pressed before the first frame, and the body left to fall
InitPlay == Setup(sphereStart, <<>>, 0, 1)
NextPlay == Tick(ShortFrame) \/ Animate \/ (sphere = sphereStart /\ KeyDown("Space"))
SpecPlay == InitPlay /\ [][NextPlay]_vars

\* ------------------------------------------------------------ properties
\* the step in which animate runs
FrameRuns == running # <<>> /\ Head(running).fn = "animate" /\ running' = Tail(running)
C2_FadeIdempotent ==
    /\ [](StepsInFlight <= 1)
    /\ [][fadeCalls' # fadeCalls /\ fading
             => /\ fading'
                /\ currentGain' = currentGain
                /\ FadeSteps' = FadeSteps]_vars
\* a fade in flight that a later call of fadeOutAudio has met
C2_Witness == fading /\ \E k \in DOMAIN FadeSteps : FadeSteps[k].call < fadeCalls

\* C3: hasCollided is a one-way latch: it never returns to false, and the
\* collision branch runs at most once.
C3_CollidedLatch ==
    /\ [](engulfed <= 1)
    /\ [][hasCollided => hasCollided']_vars
\* the latch set, and a whole frame run after the frame that set it
C3_Witness == hasCollided /\ engulfed = 1 /\ frames >= 2 /\ running = <<>>

\* C4: from the initial state (the body on the axis at distance about 1000 from
\* the vortex, at rest, no player input) repeated frames eventually reach a
\* frame with dist < 1, so that hasCollided becomes true.
C4_EventuallyCollides == <>hasCollided

\* C5: in every reachable state currentGain lies in [0, 1.27]; the gain a
\* fade step writes is never negative.
C5_GainInRange == 0 <= currentGain /\ currentGain <= 130000 + 950 * 1200
\* a fade step has written a gain between 0 and the start gain of its fade
C5_Witness ==
    /\ fading
    /\ \E k \in DOMAIN FadeSteps :
          /\ FadeSteps[k].elapsed > 0
          /\ 0 < currentGain /\ currentGain < FadeSteps[k].start

\* the distance of currentGain to the target 1.08 of intensity 1.0
Gap == Abs(currentGain - TargetGain(1000))
\* C6: with the audio started, not fading and the intensity 1.0 on every
\* frame, currentGain comes within 1e-3 of targetGain = 1.08 after finitely
\* many frames and stays there: a frame outside that distance brings it
\* nearer by 4e-5 at least, a frame inside it leaves it inside.
C6_GainConverges ==
    [][FrameRuns /\ audioStarted /\ ~fading
          => /\ targetGain' = TargetGain(1000)
             /\ Gap > G \div 1000 => Gap' <= Gap - (smoothing * (G \div 1000)) \div 1000
             /\ Gap <= G \div 1000 => Gap' <= G \div 1000]_vars
\* the gain has come within 1e-3 of 1.08 from the 0.7 of startAudio
C6_Witness == audioStarted /\ ~fading /\ targetGain = TargetGain(1000)
              /\ Gap <= G \div 1000 /\ frames < FarFrames

\* C7: every component of every particle's position is finite after any
\* number of frames, also for a particle that lies on the vortex (d = 0).
C7_PositionsFinite ==
    \A i \in DOMAIN positions :
        /\ IsVec(positions[i])
        /\ \A k \in 1..3 : IsFinite(positions[i][k]) /\ Abs(positions[i][k]) < Huge
\* a frame has met a particle at d = 0
C7_Witness == \E i \in DOMAIN measured : measured[i] = 0 /\ IsVec(positions[i])

\* C8: a particle that the frame finds at d < 3.5 ends the frame with
\* velocity (0,0,0) and a position in the spawn volume; every other particle
\* moves by its velocity; the number of particles stays PARTICLE_COUNT.
C8_Recycling ==
    [][FrameRuns
          => /\ Len(positions') = PARTICLE_COUNT
             /\ Len(velocities') = PARTICLE_COUNT
             /\ \A i \in DOMAIN positions :
                   IF Length(VSub(vortexPos, positions[i])) < recycleRadius
                   THEN velocities'[i] = Zero /\ InSpawnVolume(positions'[i])
                   ELSE positions'[i] = VAdd(positions[i], velocities'[i])]_vars
\* a frame has recycled a particle inside the radius and moved one
\* outside it
C8_Witness ==
    /\ measured # <<>>
    /\ \E i, j \in DOMAIN measured :
          /\ 0 < measured[i] /\ measured[i] < recycleRadius
          /\ velocities[i] = Zero
          /\ measured[j] >= recycleRadius /\ velocities[j] # Zero

\* a vector brought into the range where products of components fit
Shrunk(v) == [k \in 1..3 |-> RDiv(v[k], Shrink(v))]
\* C9: right after the clamp the body's speed is at most maxSpeed (to the
\* resolution of the grid), and the clamp keeps the velocity's direction.
C9_SpeedClamped ==
    /\ IsVec(clamped) /\ IsVec(unclamped)
    /\ Length(clamped) <= maxSpeed + 2
    /\ LET u == Shrunk(unclamped)
       IN \A i, j \in 1..3 :
             /\ clamped[i] * u[i] >= 0
             /\ Abs(clamped[i] * u[j] - clamped[j] * u[i])
                   <= 2 * (Abs(u[i]) + Abs(u[j])) + 2 * maxSpeed
\* the clamp has rescaled a velocity that was over maxSpeed
C9_Witness == IsVec(unclamped) /\ Length(unclamped) > maxSpeed /\ clamped # unclamped

\* C10: the division by dist * dist is guarded by a minimum distance, so that
\* what gravity adds to the velocity is finite for every position of the
\* body, dist = 0 included.
C10_GravityFinite == IsVec(unclamped)

\* the body's distance to the vortex, as the next frame will measure it
Dist == Length(VSub(vortexPos, sphere))
\* C11: at every distance dist > 0 the strength K / dist^2 that gravity adds
\* along the direction to the vortex is not negative: gravity never pushes
\* the body away from the vortex.
C11_GravityAttracts == Dist # NaN /\ Dist > 0 => GravStrength(Dist) >= 0

\* C12: after every call of setAudioIntensity with the audio started, the
\* cutoff 800 + 8000 * (1 - intensity) of the low-pass filter is a strictly
\* positive frequency, for every intensity of [0, 1.2].
C12_CutoffPositive == audioStarted => filterFrequency > 0
====
